---- MODULE Spec2Model ----
(***************************************************************************)
(* Model of wine_quality_assignment.py: a straight-line script that loads  *)
(* a semicolon-separated table, prints statistics, renders eight charts    *)
(* (optionally saving each as a PNG), derives a quality class per row and  *)
(* groups two columns by class for the box plots.                          *)
(*                                                                         *)
(* A data frame is modelled column-wise, as pandas stores it: a function   *)
(* from column names to equally long sequences of cell values.             *)
(***************************************************************************)
EXTENDS Integers, Sequences, FiniteSets

VARIABLES
    csv,            \* the parsed content of CSV_PATH (input, never written)
    SAVE_FIGS,      \* line 43: the save-figures switch
    fsDir,          \* what FIG_DIR is on disk: "absent", "dir" or "file"
    dirCreated,     \* TRUE once line 47 has created FIG_DIR
    saved,          \* file names written by plt.savefig, in order
    shown,          \* charts rendered by plt.show, in order
    df,             \* line 53 / 209: the data frame
    corrColumns,    \* line 87: the columns of corr
    topCorrPrinted, \* lines 109-110 ran
    df_classed,     \* line 212
    boxAlcohol,     \* line 224: values_by_class('alcohol') as handed to boxplot
    boxPH,          \* line 234: values_by_class('pH') as handed to boxplot
    pc,             \* the statement the script is about to run
    failedAt,       \* the step that raised, "none" while running
    error,          \* the exception raised, "none" while running
    call            \* a direct call of map_quality_to_class: argument and result

vars == <<csv, SAVE_FIGS, fsDir, dirCreated, saved, shown, df, corrColumns,
          topCorrPrinted, df_classed, boxAlcohol, boxPH, pc, failedAt, error, call>>

---------------------------------------------------------------------------
(* Bounds of the explored inputs *)

MaxRows == 2        \* rows in the loaded table
MaxVal == 2         \* alcohol cells range over 1..MaxVal
QSpan == 60         \* direct calls of map_quality_to_class take q in -QSpan..QSpan

QualityScores == 3 .. 8     \* the scores the red-wine table shows
AlcoholValues == 1 .. MaxVal
PHValues == {3, 4}
QArgs == (0 - QSpan) .. QSpan

---------------------------------------------------------------------------
(* Names used by the script *)

None == "None"
ClassLabels == <<"Bad", "Good", "Very Good">>

\* the columns the script indexes by name
UsedColumns == {"residual sugar", "pH", "fixed acidity", "citric acid", "quality", "alcohol"}
\* the remaining attributes of the table, never indexed by name
OtherColumns == {"volatile acidity", "chlorides", "free sulfur dioxide",
                 "total sulfur dioxide", "density", "sulphates"}

Steps == <<"config", "load", "describe", "corr", "heatmap", "topcorr", "scatter1",
           "scatter2", "hist", "classify", "dropna", "box_alcohol_class",
           "box_pH_class", "box_alcohol_all", "box_pH_all", "conclusion", "done">>

FigNames == {"correlation_heatmap.png", "scatter_residual_sugar_vs_pH.png",
             "scatter_fixed_acidity_vs_citric_acid.png", "hist_quality.png",
             "box_alcohol_by_quality_class.png", "box_pH_by_quality_class.png",
             "box_alcohol_all.png", "box_pH_all.png"}

---------------------------------------------------------------------------
(* Data frames *)

NoFrame == [c \in {} |-> <<>>]

FrameLen(frame) ==
    IF DOMAIN frame = {} THEN 0 ELSE Len(frame[CHOOSE c \in DOMAIN frame : TRUE])

MaskedValuesReversed(col, mask) ==
    LET idx == SelectSeq([i \in 1 .. Len(col) |-> i], LAMBDA i : mask[i])
    IN  [k \in 1 .. Len(idx) |-> col[idx[Len(idx) + 1 - k]]]

\* the cells of a column at the rows where mask is TRUE, in row order (boolean
\* indexing: frame.loc[mask, column].values)
MaskedValues(col, mask) ==
    LET idx == SelectSeq([i \in 1 .. Len(col) |-> i], LAMBDA i : mask[i])
    IN  [k \in 1 .. Len(idx) |-> col[idx[k]]]

\* DataFrame.dropna(subset=[sub]): the rows whose cell in column sub is not NA
dropna(frame, sub) ==
    [c \in DOMAIN frame |->
        MaskedValues(frame[c], [i \in 1 .. Len(frame[sub]) |-> frame[sub][i] # None])]

\* The table a file holds: header names the columns, rows gives quality,
\* alcohol and pH per row; the other attributes carry a value nothing reads.
ParseCsv(header, rows) ==
    [c \in header |->
        [i \in 1 .. Len(rows) |->
            CASE c = "quality" -> rows[i].quality
              [] c = "alcohol" -> rows[i].alcohol
              [] c = "pH" -> rows[i].pH
              [] OTHER -> 1]]

Records == [quality : QualityScores, alcohol : AlcoholValues, pH : PHValues]
Datasets == UNION {[1 .. n -> Records] : n \in 0 .. MaxRows}

---------------------------------------------------------------------------
(* Lines 199-207 *)

map_quality_to_class_le4(q) ==
    IF q <= 4 THEN "Bad"
    ELSE IF (q > 4) /\ (q <= 7) THEN "Good"
    ELSE IF q > 7 THEN "Very Good"
    ELSE None

map_quality_to_class_lt7(q) ==
    IF q < 4 THEN "Bad"
    ELSE IF (q > 4) /\ (q < 7) THEN "Good"
    ELSE IF q >= 7 THEN "Very Good"
    ELSE None

map_quality_to_class_ge4(q) ==
    IF q < 4 THEN "Bad"
    ELSE IF (q >= 4) /\ (q <= 7) THEN "Good"
    ELSE IF q > 7 THEN "Very Good"
    ELSE None

map_quality_to_class(q) ==
    IF q < 4 THEN "Bad"
    ELSE IF (q > 4) /\ (q <= 7) THEN "Good"
    ELSE IF q > 7 THEN "Very Good"
    ELSE None

\* Series.apply(f): f of every cell, in place
apply_map(col) == [i \in 1 .. Len(col) |-> map_quality_to_class(col[i])]

(* Lines 215-220 *)

values_by_class_good_twice(column) ==
    << MaskedValues(df_classed[column],
            [i \in 1 .. Len(df_classed[column]) |-> df_classed["quality_class"][i] = "Bad"]),
       MaskedValues(df_classed[column],
            [i \in 1 .. Len(df_classed[column]) |-> df_classed["quality_class"][i] = "Good"]),
       MaskedValues(df_classed[column],
            [i \in 1 .. Len(df_classed[column]) |-> df_classed["quality_class"][i] = "Good"]) >>

values_by_class_reversed(column) ==
    << MaskedValuesReversed(df_classed[column],
            [i \in 1 .. Len(df_classed[column]) |-> df_classed["quality_class"][i] = "Bad"]),
       MaskedValuesReversed(df_classed[column],
            [i \in 1 .. Len(df_classed[column]) |-> df_classed["quality_class"][i] = "Good"]),
       MaskedValuesReversed(df_classed[column],
            [i \in 1 .. Len(df_classed[column]) |-> df_classed["quality_class"][i] = "Very Good"]) >>

values_by_class_swapped(column) ==
    << MaskedValues(df_classed[column],
            [i \in 1 .. Len(df_classed[column]) |-> df_classed["quality_class"][i] = "Good"]),
       MaskedValues(df_classed[column],
            [i \in 1 .. Len(df_classed[column]) |-> df_classed["quality_class"][i] = "Bad"]),
       MaskedValues(df_classed[column],
            [i \in 1 .. Len(df_classed[column]) |-> df_classed["quality_class"][i] = "Very Good"]) >>

values_by_class(column) ==
    << MaskedValues(df_classed[column],
            [i \in 1 .. Len(df_classed[column]) |-> df_classed["quality_class"][i] = "Bad"]),
       MaskedValues(df_classed[column],
            [i \in 1 .. Len(df_classed[column]) |-> df_classed["quality_class"][i] = "Good"]),
       MaskedValues(df_classed[column],
            [i \in 1 .. Len(df_classed[column]) |-> df_classed["quality_class"][i] = "Very Good"]) >>

---------------------------------------------------------------------------
(* The script, statement by statement *)

\* an uncaught exception ends the run
Raise(step, exc) ==
    /\ pc' = "error"
    /\ failedAt' = step
    /\ error' = exc

Continue(next) ==
    /\ pc' = next
    /\ UNCHANGED <<failedAt, error>>

\* "if SAVE_FIGS: plt.savefig(os.path.join(FIG_DIR, name))": the list of files
\* written so far, with name added when the switch is on
savefig_always(name) == Append(saved, name)

savefig(name) == IF SAVE_FIGS THEN Append(saved, name) ELSE saved

\* savefig raises when FIG_DIR is not a directory
SaveFails == SAVE_FIGS /\ fsDir # "dir"

\* the tail of every chart section: savefig when enabled, then show
Render(step, next, name) ==
    IF SaveFails
    THEN Raise(step, "OSError") /\ UNCHANGED <<saved, shown>>
    ELSE /\ saved' = savefig(name)
         /\ shown' = Append(shown, step)
         /\ Continue(next)

\* lines 46-47
Config ==
    /\ pc = "config"
    /\ IF SAVE_FIGS /\ fsDir = "absent"
       THEN fsDir' = "dir" /\ dirCreated' = TRUE
       ELSE UNCHANGED <<fsDir, dirCreated>>
    /\ Continue("load")
    /\ UNCHANGED <<csv, SAVE_FIGS, saved, shown, df, corrColumns, topCorrPrinted,
                   df_classed, boxAlcohol, boxPH, call>>

\* lines 53-58
Load ==
    /\ pc = "load"
    /\ df' = csv
    /\ Continue("describe")
    /\ UNCHANGED <<csv, SAVE_FIGS, fsDir, dirCreated, saved, shown, corrColumns,
                   topCorrPrinted, df_classed, boxAlcohol, boxPH, call>>

\* lines 63-81
Describe ==
    /\ pc = "describe"
    /\ Continue("corr")
    /\ UNCHANGED <<csv, SAVE_FIGS, fsDir, dirCreated, saved, shown, df, corrColumns,
                   topCorrPrinted, df_classed, boxAlcohol, boxPH, call>>

\* lines 86-88: corr keeps the numeric columns; a table without rows is read
\* with object columns, none of them numeric
Corr ==
    /\ pc = "corr"
    /\ corrColumns' = IF FrameLen(df) = 0 THEN {} ELSE DOMAIN df
    /\ Continue("heatmap")
    /\ UNCHANGED <<csv, SAVE_FIGS, fsDir, dirCreated, saved, shown, df,
                   topCorrPrinted, df_classed, boxAlcohol, boxPH, call>>

\* lines 91-100
Heatmap ==
    /\ pc = "heatmap"
    /\ Render("heatmap", "topcorr", "correlation_heatmap.png")
    /\ UNCHANGED <<csv, SAVE_FIGS, fsDir, dirCreated, df, corrColumns,
                   topCorrPrinted, df_classed, boxAlcohol, boxPH, call>>

\* line 108
TopCorrGuardOff == TRUE

TopCorrGuard == "quality" \in corrColumns

\* lines 104-123: corr_df[target_col] raises KeyError for a column corr lacks
TopCorr ==
    /\ pc = "topcorr"
    /\ IF TopCorrGuard
       THEN IF "quality" \in corrColumns
            THEN topCorrPrinted' = TRUE /\ Continue("scatter1")
            ELSE Raise("topcorr", "KeyError") /\ UNCHANGED topCorrPrinted
       ELSE UNCHANGED topCorrPrinted /\ Continue("scatter1")
    /\ UNCHANGED <<csv, SAVE_FIGS, fsDir, dirCreated, saved, shown, df, corrColumns,
                   df_classed, boxAlcohol, boxPH, call>>

\* lines 128-145
Scatter1 ==
    /\ pc = "scatter1"
    /\ IF {"residual sugar", "pH"} \subseteq DOMAIN df
       THEN Render("scatter1", "scatter2", "scatter_residual_sugar_vs_pH.png")
       ELSE Raise("scatter1", "KeyError") /\ UNCHANGED <<saved, shown>>
    /\ UNCHANGED <<csv, SAVE_FIGS, fsDir, dirCreated, df, corrColumns,
                   topCorrPrinted, df_classed, boxAlcohol, boxPH, call>>

\* lines 150-167
Scatter2 ==
    /\ pc = "scatter2"
    /\ IF {"fixed acidity", "citric acid"} \subseteq DOMAIN df
       THEN Render("scatter2", "hist", "scatter_fixed_acidity_vs_citric_acid.png")
       ELSE Raise("scatter2", "KeyError") /\ UNCHANGED <<saved, shown>>
    /\ UNCHANGED <<csv, SAVE_FIGS, fsDir, dirCreated, df, corrColumns,
                   topCorrPrinted, df_classed, boxAlcohol, boxPH, call>>

\* lines 172-193: min() and max() of a column without rows are NaN, and
\* int(NaN) raises ValueError (line 174)
Hist ==
    /\ pc = "hist"
    /\ IF "quality" \notin DOMAIN df
       THEN Raise("hist", "KeyError") /\ UNCHANGED <<saved, shown>>
       ELSE IF Len(df["quality"]) = 0
       THEN Raise("hist", "ValueError") /\ UNCHANGED <<saved, shown>>
       ELSE Render("hist", "classify", "hist_quality.png")
    /\ UNCHANGED <<csv, SAVE_FIGS, fsDir, dirCreated, df, corrColumns,
                   topCorrPrinted, df_classed, boxAlcohol, boxPH, call>>

\* a slip that filters the full table instead of a copy
ClassifyInPlace ==
    /\ pc = "classify"
    /\ IF "quality" \in DOMAIN df
       THEN /\ df' = dropna([c \in DOMAIN df \cup {"quality_class"} |->
                        IF c = "quality_class" THEN apply_map(df["quality"]) ELSE df[c]],
                        "quality_class")
            /\ Continue("dropna")
       ELSE Raise("classify", "KeyError") /\ UNCHANGED df
    /\ UNCHANGED <<csv, SAVE_FIGS, fsDir, dirCreated, saved, shown, corrColumns,
                   topCorrPrinted, df_classed, boxAlcohol, boxPH, call>>

\* line 209
Classify ==
    /\ pc = "classify"
    /\ IF "quality" \in DOMAIN df
       THEN /\ df' = [c \in DOMAIN df \cup {"quality_class"} |->
                        IF c = "quality_class" THEN apply_map(df["quality"]) ELSE df[c]]
            /\ Continue("dropna")
       ELSE Raise("classify", "KeyError") /\ UNCHANGED df
    /\ UNCHANGED <<csv, SAVE_FIGS, fsDir, dirCreated, saved, shown, corrColumns,
                   topCorrPrinted, df_classed, boxAlcohol, boxPH, call>>

\* line 212
DropNa ==
    /\ pc = "dropna"
    /\ df_classed' = dropna(df, "quality_class")
    /\ Continue("box_alcohol_class")
    /\ UNCHANGED <<csv, SAVE_FIGS, fsDir, dirCreated, saved, shown, df, corrColumns,
                   topCorrPrinted, boxAlcohol, boxPH, call>>

\* lines 223-230
BoxAlcoholByClass ==
    /\ pc = "box_alcohol_class"
    /\ IF "alcohol" \in DOMAIN df_classed
       THEN /\ boxAlcohol' = values_by_class("alcohol")
            /\ Render("box_alcohol_class", "box_pH_class", "box_alcohol_by_quality_class.png")
       ELSE Raise("box_alcohol_class", "KeyError") /\ UNCHANGED <<boxAlcohol, saved, shown>>
    /\ UNCHANGED <<csv, SAVE_FIGS, fsDir, dirCreated, df, corrColumns,
                   topCorrPrinted, df_classed, boxPH, call>>

\* lines 233-240
BoxPHByClass ==
    /\ pc = "box_pH_class"
    /\ IF "pH" \in DOMAIN df_classed
       THEN /\ boxPH' = values_by_class("pH")
            /\ Render("box_pH_class", "box_alcohol_all", "box_pH_by_quality_class.png")
       ELSE Raise("box_pH_class", "KeyError") /\ UNCHANGED <<boxPH, saved, shown>>
    /\ UNCHANGED <<csv, SAVE_FIGS, fsDir, dirCreated, df, corrColumns,
                   topCorrPrinted, df_classed, boxAlcohol, call>>

\* lines 243-249
BoxAlcoholAll ==
    /\ pc = "box_alcohol_all"
    /\ IF "alcohol" \in DOMAIN df
       THEN Render("box_alcohol_all", "box_pH_all", "box_alcohol_all.png")
       ELSE Raise("box_alcohol_all", "KeyError") /\ UNCHANGED <<saved, shown>>
    /\ UNCHANGED <<csv, SAVE_FIGS, fsDir, dirCreated, df, corrColumns,
                   topCorrPrinted, df_classed, boxAlcohol, boxPH, call>>

\* lines 251-257
BoxPHAll ==
    /\ pc = "box_pH_all"
    /\ IF "pH" \in DOMAIN df
       THEN Render("box_pH_all", "conclusion", "box_pH_all.png")
       ELSE Raise("box_pH_all", "KeyError") /\ UNCHANGED <<saved, shown>>
    /\ UNCHANGED <<csv, SAVE_FIGS, fsDir, dirCreated, df, corrColumns,
                   topCorrPrinted, df_classed, boxAlcohol, boxPH, call>>

\* lines 259-294
Conclusion ==
    /\ pc = "conclusion"
    /\ Continue("done")
    /\ UNCHANGED <<csv, SAVE_FIGS, fsDir, dirCreated, saved, shown, df, corrColumns,
                   topCorrPrinted, df_classed, boxAlcohol, boxPH, call>>

\* one direct call of map_quality_to_class
CallMap ==
    /\ call.state = "pending"
    /\ call' = [q |-> call.q, result |-> map_quality_to_class(call.q), state |-> "returned"]
    /\ UNCHANGED <<csv, SAVE_FIGS, fsDir, dirCreated, saved, shown, df, corrColumns,
                   topCorrPrinted, df_classed, boxAlcohol, boxPH, pc, failedAt, error>>

---------------------------------------------------------------------------
(* Specifications *)

NoCall == [q |-> 0, result |-> None, state |-> "none"]

\* the state before the first statement, for a given file, switch and disk
Start(header, rows, save, dir) ==
    /\ csv = ParseCsv(header, rows)
    /\ SAVE_FIGS = save
    /\ fsDir = dir
    /\ dirCreated = FALSE
    /\ saved = <<>>
    /\ shown = <<>>
    /\ df = NoFrame
    /\ corrColumns = {}
    /\ topCorrPrinted = FALSE
    /\ df_classed = NoFrame
    /\ boxAlcohol = <<>>
    /\ boxPH = <<>>
    /\ pc = "config"
    /\ failedAt = "none"
    /\ error = "none"

\* The script as shipped (SAVE_FIGS = False, line 43) on any table of at most
\* MaxRows rows with the full header.
Init ==
    /\ \E rows \in Datasets : Start(UsedColumns \cup OtherColumns, rows, FALSE, "absent")
    /\ call = NoCall

Next ==
    \/ Config \/ Load \/ Describe \/ Corr \/ Heatmap \/ TopCorr \/ Scatter1 \/ Scatter2
    \/ Hist \/ Classify \/ DropNa \/ BoxAlcoholByClass \/ BoxPHByClass
    \/ BoxAlcoholAll \/ BoxPHAll \/ Conclusion

Spec == Init /\ [][Next]_vars

\* The table of the spec's scenario: qualities 3, 4, 5, 8.
SampleRows ==
    << [quality |-> 3, alcohol |-> 9, pH |-> 4], [quality |-> 4, alcohol |-> 10, pH |-> 3],
       [quality |-> 5, alcohol |-> 10, pH |-> 4], [quality |-> 8, alcohol |-> 12, pH |-> 3] >>

\* The script with the switch either way, FIG_DIR absent, a directory or a
\* plain file, and any of the columns it indexes missing from the header.
InitEnv ==
    /\ \E missing \in SUBSET UsedColumns, rows \in {<<>>, SampleRows},
          save \in BOOLEAN, dir \in {"absent", "dir", "file"} :
            Start((UsedColumns \cup OtherColumns) \ missing, rows, save, dir)
    /\ call = NoCall

SpecEnv == InitEnv /\ [][Next]_vars

\* map_quality_to_class called directly on any integer of -QSpan..QSpan
InitClassify ==
    /\ Start(UsedColumns \cup OtherColumns, <<>>, FALSE, "absent")
    /\ \E q \in QArgs : call = [q |-> q, result |-> None, state |-> "pending"]

NextClassify == CallMap

SpecClassify == InitClassify /\ [][NextClassify]_vars

---------------------------------------------------------------------------
(* Vocabulary of the properties *)

StepIndex(s) == CHOOSE i \in 1 .. Len(Steps) : Steps[i] = s

\* the statement the run stands at: the failing one once it has failed
At == IF pc = "error" THEN failedAt ELSE pc

\* step s ran to its end without raising
Passed(s) == StepIndex(At) > StepIndex(s)

Count(seq, v) == Cardinality({i \in 1 .. Len(seq) : seq[i] = v})

Rows == 1 .. FrameLen(csv)

\* the cells of col at the rows labelled lab, in row order
RECURSIVE Restrict(_, _, _)
Restrict(col, labels, lab) ==
    IF col = <<>> THEN <<>>
    ELSE IF Head(labels) = lab
         THEN <<Head(col)>> \o Restrict(Tail(col), Tail(labels), lab)
         ELSE Restrict(Tail(col), Tail(labels), lab)

TotalLen(box) == Len(box[1]) + Len(box[2]) + Len(box[3])

NoValueOfUnclassified(box, column) ==
    \A v \in {csv[column][i] : i \in Rows} :
        /\ Count(box[1], v) + Count(box[2], v) + Count(box[3], v)
              <= Cardinality({i \in Rows : csv["quality"][i] # 4 /\ csv[column][i] = v})
        /\ \A k \in 1 .. 3 :
              Count(box[k], v)
                <= Cardinality({i \in Rows : /\ df["quality_class"][i] = ClassLabels[k]
                                             /\ csv[column][i] = v})

---------------------------------------------------------------------------
(* Properties *)

\* C1: map_quality_to_class returns for every integer q, inside or outside
\* 0..10, one of Bad, Good, Very Good or None, and None exactly when q = 4.
C1_TotalAndGapOnlyAtFour ==
    call.state = "returned" =>
        /\ call.result \in {"Bad", "Good", "Very Good", None}
        /\ (call.result = None) <=> (call.q = 4)

C1_Witness == call.state = "returned" /\ call.q = 4 /\ call.result = None

\* C2: q < 4 gives Bad, q in 5..7 gives Good, q > 7 gives Very Good; so 3 is
\* Bad, 5 and 7 are Good, 8 is Very Good.
C2_ClassBoundaries ==
    call.state = "returned" =>
        /\ (call.q < 4) => (call.result = "Bad")
        /\ (call.q \in {5, 6, 7}) => (call.result = "Good")
        /\ (call.q > 7) => (call.result = "Very Good")

C2_Witness == call.state = "returned" /\ call.q = 7 /\ call.result = "Good"

\* C3: no bucket of values_by_class holds a value of a row whose quality is
\* 4, and every value of the bucket of class C is the value of a row of class
\* C (counted with multiplicity, for both grouped columns).
C3_NoUnclassifiedInBuckets ==
    /\ Passed("box_alcohol_class") => NoValueOfUnclassified(boxAlcohol, "alcohol")
    /\ Passed("box_pH_class") => NoValueOfUnclassified(boxPH, "pH")

C3_Witness ==
    /\ Passed("box_pH_class")
    /\ \E i \in Rows : csv["quality"][i] = 4
    /\ \E i \in Rows : csv["quality"][i] # 4
    /\ TotalLen(boxAlcohol) = 1

\* C4: the lengths of the three buckets add up to the number of rows whose
\* quality is not 4.
C4_BucketLengthsSumToClassified ==
    /\ Passed("box_alcohol_class") =>
          TotalLen(boxAlcohol) = Cardinality({i \in Rows : csv["quality"][i] # 4})
    /\ Passed("box_pH_class") =>
          TotalLen(boxPH) = Cardinality({i \in Rows : csv["quality"][i] # 4})

C4_Witness ==
    /\ Passed("box_pH_class")
    /\ FrameLen(csv) = 2
    /\ csv["quality"][1] = 5
    /\ csv["quality"][2] = 6
    /\ TotalLen(boxPH) = 2

\* C5: the bucket of class C is the column restricted to the rows of class
\* C, in the order of the loaded table.
C5_BucketsKeepRowOrder ==
    /\ Passed("box_alcohol_class") =>
          \A k \in 1 .. 3 :
              boxAlcohol[k] = Restrict(csv["alcohol"], df["quality_class"], ClassLabels[k])
    /\ Passed("box_pH_class") =>
          \A k \in 1 .. 3 :
              boxPH[k] = Restrict(csv["pH"], df["quality_class"], ClassLabels[k])

C5_Witness ==
    /\ Passed("box_alcohol_class")
    /\ Len(boxAlcohol[2]) = 2
    /\ boxAlcohol[2][1] > boxAlcohol[2][2]

\* C6: the class of a row depends on its quality alone; classifying the
\* quality column again gives the stored classes; adding quality_class (and
\* building the filtered copy) leaves the quality, the other columns and the
\* number and order of the rows of the full table as loaded.
C6_ClassifyReadsQualityOnly ==
    Passed("classify") =>
        /\ DOMAIN df = DOMAIN csv \cup {"quality_class"}
        /\ \A c \in DOMAIN csv : df[c] = csv[c]
        /\ Len(df["quality_class"]) = FrameLen(csv)
        /\ \A i, j \in Rows :
              (csv["quality"][i] = csv["quality"][j])
                 => (df["quality_class"][i] = df["quality_class"][j])
        /\ df["quality_class"] = apply_map(df["quality"])

C6_Witness ==
    /\ Passed("dropna")
    /\ FrameLen(df) = 2
    /\ FrameLen(df_classed) = 0
    /\ df["alcohol"][1] # df["alcohol"][2]

\* C7: values_by_class returns three buckets, for Bad, Good and Very Good
\* in that order, each as long as its class has rows; a class without rows
\* gives an empty bucket and the call does not raise.
C7_ThreeBucketsInFixedOrder ==
    /\ failedAt \notin {"box_alcohol_class", "box_pH_class"}
    /\ Passed("box_alcohol_class") =>
          /\ Len(boxAlcohol) = 3
          /\ \A k \in 1 .. 3 :
                Len(boxAlcohol[k])
                  = Cardinality({i \in Rows : df["quality_class"][i] = ClassLabels[k]})
    /\ Passed("box_pH_class") =>
          /\ Len(boxPH) = 3
          /\ \A k \in 1 .. 3 :
                Len(boxPH[k])
                  = Cardinality({i \in Rows : df["quality_class"][i] = ClassLabels[k]})

C7_Witness ==
    /\ Passed("box_pH_class")
    /\ boxPH[1] = <<>>
    /\ boxPH[2] # <<>>
    /\ boxPH[3] = <<>>

\* C8: a run on a table with a header and no rows raises nothing.
C8_EmptyTableRaisesNothing == (FrameLen(csv) = 0) => (pc # "error")

\* C9: with the switch off the run creates no directory and writes no file;
\* with it on, FIG_DIR is a directory before anything is written, every chart
\* shown was saved once, and a finished run wrote the eight distinct names.
C9_ExportFollowsSwitch ==
    /\ ~SAVE_FIGS => (~dirCreated /\ saved = <<>>)
    /\ (saved # <<>>) => (fsDir = "dir")
    /\ SAVE_FIGS => (Len(saved) = Len(shown))
    /\ (SAVE_FIGS /\ pc = "done") =>
          /\ Len(saved) = 8
          /\ {saved[i] : i \in 1 .. Len(saved)} = FigNames
          /\ Len(shown) = 8

C9_Witness == SAVE_FIGS /\ pc = "done" /\ dirCreated /\ Len(saved) = 8

\* the first statement that names each column, guarded or not
FirstUse(c) ==
    CASE c \in {"residual sugar", "pH"} -> "scatter1"
      [] c \in {"fixed acidity", "citric acid"} -> "scatter2"
      [] c = "quality" -> "topcorr"
      [] c = "alcohol" -> "box_alcohol_class"

\* the first statement that indexes each column outside a guard
FirstUnguardedUse(c) == IF c = "quality" THEN "hist" ELSE FirstUse(c)

Missing == UsedColumns \ DOMAIN csv

\* C10 as stated: a missing column is fatal at the first step that uses it,
\* so no run gets past that step.
C10_FatalAtFirstUse == \A c \in Missing : ~Passed(FirstUse(c))

\* C10 amended: a missing column is fatal at the first step that indexes it
\* outside a guard; the guarded top-correlations step is skipped silently when
\* quality is missing, and a KeyError is only ever raised at such a step.
C10_FatalAtFirstUnguardedUse ==
    /\ \A c \in Missing : ~Passed(FirstUnguardedUse(c))
    /\ ("quality" \in Missing) => ~topCorrPrinted
    /\ (error = "KeyError") => (\E c \in Missing : failedAt = FirstUnguardedUse(c))

C10_Witness ==
    /\ "quality" \in Missing
    /\ FrameLen(csv) > 0
    /\ Passed("scatter2")
    /\ failedAt = "hist"
    /\ error = "KeyError"

====
